---- MODULE Spec2Model ----
(***************************************************************************)
(* The chunked crawl orchestrator of api/crawl.py: the /api/crawl handler  *)
(* (crawl) and its background continuation call (trigger_next_chunk).     *)
(* Text values (query parameters) are sequences of one-character strings,  *)
(* so that int() and the f-string formatting of the continuation URL are   *)
(* modelled by what they do.  Headers and the secret are strings.          *)
(***************************************************************************)
EXTENDS Integers, Sequences, FiniteSets, TLC

VARIABLES
    cron_secret,    \* os.environ.get("CRON_SECRET")
    configs,        \* what CatalogList.get_catalog_configs() returns
    inbound,        \* requests to GET /api/crawl sent and not yet handled
    invs,           \* the invocations of crawl, in the order they were entered
    tasks,          \* the background tasks added with add_task(trigger_next_chunk, ...)
    builder_calls   \* the calls of Builder().build, in order

vars == <<cron_secret, configs, inbound, invs, tasks, builder_calls>>

(***************************************************************************)
(* Bounds of the model.                                                    *)
(***************************************************************************)
\* Largest number of catalog configs CatalogList.get_catalog_configs returns.
MaxItems == 3
\* Largest integer an external request passes as chunk.
MaxChunkParam == 2
\* Largest integer an external request passes as size.
MaxSizeParam == 2
\* Largest chunk index a continuation call is followed to (only chains that
\* never stop by themselves reach it).
MaxChunkIndex == MaxItems

(***************************************************************************)
(* Program constants.                                                      *)
(***************************************************************************)
DEFAULT_CHUNK_SIZE == 5

(***************************************************************************)
(* Optional values (Python None / a value).                                *)
(***************************************************************************)
Some(x) == [some |-> TRUE, v |-> x]
NoneStr == [some |-> FALSE, v |-> ""]
NoneText == [some |-> FALSE, v |-> <<>>]
NoneInt == [some |-> FALSE, v |-> 0]

\* Python truthiness of an optional string: None and "" are falsy.
Truthy(o) == o.some /\ o.v # ""

Min(a, b) == IF a <= b THEN a ELSE b
Max(a, b) == IF a >= b THEN a ELSE b

(***************************************************************************)
(* int(text): surrounding whitespace is stripped, an optional sign, then   *)
(* decimal digits that may be separated by single underscores.             *)
(***************************************************************************)
DigitChar == <<"0", "1", "2", "3", "4", "5", "6", "7", "8", "9">>
Digits == {DigitChar[k] : k \in 1..10}
Whitespace == {" ", "\t", "\n"}
DigitVal(c) == (CHOOSE k \in 1..10 : DigitChar[k] = c) - 1

RECURSIVE LStrip(_)
LStrip(s) == IF s # <<>> /\ Head(s) \in Whitespace THEN LStrip(Tail(s)) ELSE s

RECURSIVE RStrip(_)
RStrip(s) ==
    IF s # <<>> /\ s[Len(s)] \in Whitespace THEN RStrip(SubSeq(s, 1, Len(s) - 1)) ELSE s

Strip(s) == RStrip(LStrip(s))

\* The digit part of an integer literal: digits, single underscores between them.
ValidDigits(s) ==
    /\ s # <<>>
    /\ \A k \in 1..Len(s) : s[k] \in Digits \cup {"_"}
    /\ s[1] \in Digits /\ s[Len(s)] \in Digits
    /\ \A k \in 1..(Len(s) - 1) : ~(s[k] = "_" /\ s[k + 1] = "_")

RECURSIVE DigitsValue(_, _)
DigitsValue(s, acc) ==
    IF s = <<>> THEN acc
    ELSE IF Head(s) = "_" THEN DigitsValue(Tail(s), acc)
    ELSE DigitsValue(Tail(s), 10 * acc + DigitVal(Head(s)))

ValueError == [ok |-> FALSE, val |-> 0]

PyIntDefaultsToZero(text) ==
    LET s == Strip(text)
        body == IF s # <<>> /\ Head(s) \in {"+", "-"} THEN Tail(s) ELSE s
    IN  IF ~ValidDigits(body) THEN [ok |-> TRUE, val |-> 0]
        ELSE [ok |-> TRUE, val |-> DigitsValue(body, 0)]

PyInt(text) ==
    LET s == Strip(text)
        neg == s # <<>> /\ Head(s) = "-"
        body == IF s # <<>> /\ Head(s) \in {"+", "-"} THEN Tail(s) ELSE s
    IN  IF ~ValidDigits(body) THEN ValueError
        ELSE [ok |-> TRUE,
              val |-> IF neg THEN 0 - DigitsValue(body, 0) ELSE DigitsValue(body, 0)]

\* int(request.query_params.get(name, default)): the default is already an int.
IntParam(p, default) == IF p.some THEN PyInt(p.v) ELSE [ok |-> TRUE, val |-> default]

(***************************************************************************)
(* f"{n}": the decimal text of an integer.                                 *)
(***************************************************************************)
RECURSIVE NatStr(_)
NatStr(n) ==
    IF n < 10 THEN <<DigitChar[n + 1]>>
    ELSE NatStr(n \div 10) \o <<DigitChar[(n % 10) + 1]>>

PyStr(n) == IF n < 0 THEN <<"-">> \o NatStr(0 - n) ELSE NatStr(n)

(***************************************************************************)
(* str.lower() on the letters the auto parameter is written with.          *)
(***************************************************************************)
LowerChar(c) ==
    CASE c = "T" -> "t" [] c = "R" -> "r" [] c = "U" -> "u" [] c = "E" -> "e"
      [] c = "F" -> "f" [] c = "A" -> "a" [] c = "L" -> "l" [] c = "S" -> "s"
      [] OTHER -> c

Lower(s) == [k \in 1..Len(s) |-> LowerChar(s[k])]

TrueText == <<"t", "r", "u", "e">>

\* request.query_params.get("auto", "true").lower() == "true"
AutoParam(p) == Lower(IF p.some THEN p.v ELSE TrueText) = TrueText

(***************************************************************************)
(* Python integer floor division with a non-zero divisor, and slicing.     *)
(***************************************************************************)
FloorDiv(a, b) == IF b > 0 THEN a \div b ELSE (0 - a) \div (0 - b)

\* seq[lo:hi] with negative indices counted from the end and both clamped.
PySlice(s, lo, hi) ==
    LET n == Len(s)
        a == IF lo < 0 THEN Max(lo + n, 0) ELSE Min(lo, n)
        b == IF hi < 0 THEN Max(hi + n, 0) ELSE Min(hi, n)
    IN  IF a < b THEN SubSeq(s, a + 1, b) ELSE <<>>

(***************************************************************************)
(* The Auth Guard (crawl, lines 46-50).                                    *)
(***************************************************************************)
\* if cron_secret:
SecretConfiguredNotNone(secret) == secret.some

SecretConfigured(secret) == Truthy(secret)

AuthorizedNoScheme(secret, hdr) == Truthy(hdr) /\ hdr.v = secret.v

\* not (not auth_header or auth_header != f"Bearer {cron_secret}")
Authorized(secret, hdr) == Truthy(hdr) /\ hdr.v = "Bearer " \o secret.v

(***************************************************************************)
(* The Chunk Planner arithmetic (crawl, lines 63-84).                      *)
(***************************************************************************)
\* Variants of the chunk count: rounding down, and counting one chunk more.
TotalChunksFloor(total, size) == FloorDiv(total, size)
TotalChunksPlusOne(total, size) == FloorDiv(total, size) + 1

\* (total_catalogs + chunk_size - 1) // chunk_size, chunk_size # 0
TotalChunks(total, size) == FloorDiv(total + size - 1, size)

StartIdx(index, size) == index * size

EndIdxInclusive(start, size, total) == Min(start + size - 1, total)

EndIdx(start, size, total) == Min(start + size, total)

HasMoreInverted(end, total) == end > total

HasMoreOffByOne(end, total) == end <= total

HasMore(end, total) == end < total

\* if start_idx >= total_catalogs: nothing is left for this chunk
SliceEmptyStrict(start, total) == start > total

SliceEmpty(start, total) == start >= total

\* The chunk the continuation asks for: chunk_index + 1 (line 99)
NextChunkIndexSame(chunk_index) == chunk_index

NextChunkIndex(chunk_index) == chunk_index + 1

\* "auto_continuing": has_more and auto_continue; also the guard of add_task
AutoContinuingIgnoresAuto(has_more, auto) == has_more

AutoContinuing(has_more, auto) == has_more /\ auto

(***************************************************************************)
(* Inputs: the environment (CRON_SECRET, the catalog list) and the         *)
(* external request that starts a chain.                                   *)
(***************************************************************************)
Secrets == {NoneStr, Some(""), Some("s3cr3t")}

Headers == {NoneStr, Some(""), Some("Bearer s3cr3t"), Some("Bearer wrong"), Some("s3cr3t")}

ChunkTexts ==
    {NoneText, Some(<<"a", "b", "c">>)} \cup {Some(PyStr(n)) : n \in (0 - 1)..MaxChunkParam}

SizeTexts ==
    {NoneText, Some(<<"1", ".", "5">>)} \cup {Some(PyStr(n)) : n \in (0 - 1)..MaxSizeParam}

AutoTexts == {NoneText, Some(<<"T", "r", "u", "e">>), Some(<<"f", "a", "l", "s", "e">>)}

\* Messages Builder().build may raise with.
BuildErrors == {"scrape failed", "quota exceeded"}

\* A request to GET /api/crawl; origin is 0 (or below) for an external caller, else the
\* background task whose call it is.
ExternalRequests ==
    [origin : {0}, hdr : Headers, chunk : ChunkTexts, size : SizeTexts, auto : AutoTexts]

CatalogLists == {[k \in 1..n |-> k] : n \in 0..MaxItems}

(***************************************************************************)
(* State of one invocation of crawl: its position, its request, its        *)
(* locals and its response (code 0: not answered yet).                     *)
(***************************************************************************)
NewInvocation(req) ==
    [pc |-> "auth", origin |-> req.origin, hdr |-> req.hdr,
     q_chunk |-> req.chunk, q_size |-> req.size, q_auto |-> req.auto,
     chunk_index |-> 0, chunk_size |-> 0, auto_continue |-> FALSE,
     fetched |-> FALSE, total_catalogs |-> 0, total_chunks |-> 0,
     start_idx |-> 0, end_idx |-> 0, sliced |-> FALSE, chunk_configs |-> <<>>,
     elapsed |-> FALSE, has_more |-> FALSE, resp |-> [code |-> 0], log |-> <<>>]

\* One line written through lib.log by an invocation or by its background task.
LogEntry(level, msg) == [level |-> level, msg |-> msg]

\* raise HTTPException(status_code=500, detail=str(e))
ErrorResponseGeneric(msg) == [code |-> 500, detail |-> "Internal Server Error"]

ErrorResponse(msg) == [code |-> 500, detail |-> msg]

Init ==
    /\ cron_secret \in Secrets
    /\ configs \in CatalogLists
    /\ inbound \in {{r} : r \in ExternalRequests}
    /\ invs = <<>>
    /\ tasks = <<>>
    /\ builder_calls = <<>>

(***************************************************************************)
(* crawl, lines 39-50: the handler is entered and the request is checked   *)
(* against CRON_SECRET.                                                    *)
(***************************************************************************)
Authenticate(req) ==
    /\ req \in inbound
    /\ inbound' = inbound \ {req}
    /\ LET inv == NewInvocation(req)
       IN  IF SecretConfigured(cron_secret)
           THEN IF ~Authorized(cron_secret, req.hdr)
                THEN invs' = Append(invs,
                         [inv EXCEPT !.pc = "done",
                                     !.resp = [code |-> 401, detail |-> "Unauthorized"]])
                ELSE invs' = Append(invs, [inv EXCEPT !.pc = "parse"])
           ELSE invs' = Append(invs,
                    [inv EXCEPT !.pc = "parse",
                                !.log = <<LogEntry("warning", "CRON_SECRET is not set")>>])
    /\ UNCHANGED <<cron_secret, configs, tasks, builder_calls>>

(***************************************************************************)
(* crawl, lines 53-58: chunk, size and auto are read from the query.       *)
(***************************************************************************)
ParseParams(i) ==
    /\ invs[i].pc = "parse"
    /\ LET c == IntParam(invs[i].q_chunk, 0)
           s == IntParam(invs[i].q_size, DEFAULT_CHUNK_SIZE)
       IN  IF ~c.ok \/ ~s.ok
           THEN invs' = [invs EXCEPT ![i].pc = "done",
                            ![i].resp = [code |-> 400,
                                         detail |-> "Invalid chunk or size parameters"]]
           ELSE invs' = [invs EXCEPT ![i].pc = "plan",
                            ![i].chunk_index = c.val,
                            ![i].chunk_size = s.val,
                            ![i].auto_continue = AutoParam(invs[i].q_auto)]
    /\ UNCHANGED <<cron_secret, configs, inbound, tasks, builder_calls>>

(***************************************************************************)
(* crawl, lines 60-78 (and 116-118 for the division by zero): the catalog  *)
(* list is fetched and the slice of this chunk is taken.                   *)
(***************************************************************************)
Plan(i) ==
    /\ invs[i].pc = "plan"
    /\ LET total == Len(configs)
           size == invs[i].chunk_size
           start == StartIdx(invs[i].chunk_index, size)
           end == EndIdx(start, size, total)
       IN  IF size = 0
           THEN /\ invs' = [invs EXCEPT ![i].pc = "done",
                               ![i].fetched = TRUE,
                               ![i].total_catalogs = total,
                               ![i].log = Append(@, LogEntry("error", "Error during crawl")),
                               ![i].resp =
                                   ErrorResponse("integer division or modulo by zero")]
           ELSE IF SliceEmpty(start, total)
           THEN /\ invs' = [invs EXCEPT ![i].pc = "done",
                               ![i].fetched = TRUE,
                               ![i].total_catalogs = total,
                               ![i].total_chunks = TotalChunks(total, size),
                               ![i].start_idx = start,
                               ![i].resp = [code |-> 200, status |-> "complete",
                                            message |-> "All catalogs already processed.",
                                            total |-> total,
                                            chunks_total |-> TotalChunks(total, size)]]
           ELSE /\ invs' = [invs EXCEPT ![i].pc = "build",
                               ![i].fetched = TRUE,
                               ![i].total_catalogs = total,
                               ![i].total_chunks = TotalChunks(total, size),
                               ![i].start_idx = start,
                               ![i].end_idx = end,
                               ![i].sliced = TRUE,
                               ![i].log = Append(@, LogEntry("info", "Processing chunk")),
                               ![i].chunk_configs = PySlice(configs, start, end)]
    /\ UNCHANGED <<cron_secret, configs, inbound, tasks, builder_calls>>

(***************************************************************************)
(* crawl, line 81: Builder().build(configs=chunk_configs) returns.         *)
(***************************************************************************)
\* A handler that skips the build when the same slice was already built.
BuildOkDeduplicated(i) ==
    /\ invs[i].pc = "build"
    /\ builder_calls' =
           IF \E k \in 1..Len(builder_calls) :
                  builder_calls[k].configs = invs[i].chunk_configs
           THEN builder_calls
           ELSE Append(builder_calls,
                    [inv |-> i, configs |-> invs[i].chunk_configs,
                     raised |-> FALSE, msg |-> ""])
    /\ invs' = [invs EXCEPT ![i].pc = "respond"]
    /\ UNCHANGED <<cron_secret, configs, inbound, tasks>>

BuildOk(i) ==
    /\ invs[i].pc = "build"
    /\ builder_calls' = Append(builder_calls,
           [inv |-> i, configs |-> invs[i].chunk_configs, raised |-> FALSE, msg |-> ""])
    /\ invs' = [invs EXCEPT ![i].pc = "respond"]
    /\ UNCHANGED <<cron_secret, configs, inbound, tasks>>

(***************************************************************************)
(* crawl, lines 81 and 116-118: Builder().build raises.                    *)
(***************************************************************************)
BuildRaise(i, msg) ==
    /\ invs[i].pc = "build"
    /\ builder_calls' = Append(builder_calls,
           [inv |-> i, configs |-> invs[i].chunk_configs, raised |-> TRUE, msg |-> msg])
    /\ invs' = [invs EXCEPT ![i].pc = "done",
                            ![i].log = Append(@, LogEntry("error", "Error during crawl")),
                            ![i].resp = ErrorResponse(msg)]
    /\ UNCHANGED <<cron_secret, configs, inbound, tasks>>

(***************************************************************************)
(* crawl, lines 83-115: the continuation is scheduled as a background task *)
(* and the result is returned.                                             *)
(***************************************************************************)
\* A handler that awaits the continuation call itself before it returns:
\* the call is sent from the handler and the result is returned only once
\* the call was answered or has failed.
RespondAwaitsCall(i) ==
    /\ invs[i].pc = "respond"
    /\ LET inv == invs[i]
           has_more == HasMore(inv.end_idx, inv.total_catalogs)
           go == AutoContinuing(has_more, inv.auto_continue)
           mine == {t \in 1..Len(tasks) : tasks[t].inv = i}
       IN  IF go /\ mine = {}
           THEN /\ inv.chunk_index + 1 <= MaxChunkIndex
                /\ tasks' = Append(tasks, [inv |-> i,
                                           chunk_index |-> inv.chunk_index + 1,
                                           chunk_size |-> inv.chunk_size,
                                           auth_header |-> inv.hdr,
                                           st |-> "awaiting", attempts |-> 1, sent |-> TRUE])
                /\ inbound' = inbound \cup
                       {[origin |-> Len(tasks) + 1,
                         hdr |-> IF Truthy(inv.hdr) THEN inv.hdr ELSE NoneStr,
                         chunk |-> Some(PyStr(inv.chunk_index + 1)),
                         size |-> Some(PyStr(inv.chunk_size)),
                         auto |-> NoneText]}
                /\ UNCHANGED invs
           ELSE /\ \A t \in mine : tasks[t].st # "awaiting"
                /\ invs' = [invs EXCEPT ![i].pc = "done",
                               ![i].elapsed = TRUE,
                               ![i].has_more = has_more,
                               ![i].resp = [code |-> 200,
                                            status |-> IF has_more THEN "success" ELSE "complete",
                                            chunk |-> inv.chunk_index + 1,
                                            chunks_total |-> inv.total_chunks,
                                            processed |-> Len(inv.chunk_configs),
                                            total |-> inv.total_catalogs,
                                            next_chunk |-> IF has_more
                                                           THEN Some(inv.chunk_index + 1)
                                                           ELSE NoneInt,
                                            auto_continuing |-> go]]
                /\ UNCHANGED <<tasks, inbound>>
    /\ UNCHANGED <<cron_secret, configs, builder_calls>>

Respond(i) ==
    /\ invs[i].pc = "respond"
    /\ LET inv == invs[i]
           has_more == HasMore(inv.end_idx, inv.total_catalogs)
           go == AutoContinuing(has_more, inv.auto_continue)
       IN  /\ tasks' = IF go
                       THEN Append(tasks, [inv |-> i,
                                           chunk_index |-> NextChunkIndex(inv.chunk_index),
                                           chunk_size |-> inv.chunk_size,
                                           auth_header |-> inv.hdr,
                                           st |-> "scheduled", attempts |-> 0, sent |-> FALSE])
                       ELSE tasks
           /\ invs' = [invs EXCEPT ![i].pc = "done",
                          ![i].elapsed = TRUE,
                          ![i].has_more = has_more,
                          ![i].log = @ \o <<LogEntry("info", "Chunk completed")>>
                              \o (IF go THEN <<LogEntry("info", "Scheduling chunk")>> ELSE <<>>),
                          ![i].resp = [code |-> 200,
                                       status |-> IF has_more THEN "success" ELSE "complete",
                                       chunk |-> inv.chunk_index + 1,
                                       chunks_total |-> inv.total_chunks,
                                       processed |-> Len(inv.chunk_configs),
                                       total |-> inv.total_catalogs,
                                       next_chunk |-> IF has_more
                                                      THEN Some(inv.chunk_index + 1)
                                                      ELSE NoneInt,
                                       auto_continuing |-> AutoContinuing(has_more,
                                                                          inv.auto_continue)]]
    /\ UNCHANGED <<cron_secret, configs, inbound, builder_calls>>

(***************************************************************************)
(* trigger_next_chunk, lines 23-36, run after the response of the          *)
(* invocation that scheduled it.                                           *)
(***************************************************************************)
ContinuationRequestNoHeader(t) ==
    [origin |-> t,
     hdr |-> NoneStr,
     chunk |-> Some(PyStr(tasks[t].chunk_index)),
     size |-> Some(PyStr(tasks[t].chunk_size)),
     auto |-> NoneText]

\* The request client.get(url, headers=headers) sends (lines 26-33).
ContinuationRequest(t) ==
    [origin |-> t,
     hdr |-> IF Truthy(tasks[t].auth_header) THEN tasks[t].auth_header ELSE NoneStr,
     chunk |-> Some(PyStr(tasks[t].chunk_index)),
     size |-> Some(PyStr(tasks[t].chunk_size)),
     auto |-> NoneText]

\* The call reaches the endpoint; the task now waits for the response.
TriggerSend(t) ==
    /\ tasks[t].st = "scheduled"
    /\ invs[tasks[t].inv].pc = "done"
    /\ tasks[t].chunk_index <= MaxChunkIndex
    /\ inbound' = inbound \cup {ContinuationRequest(t)}
    /\ tasks' = [tasks EXCEPT ![t].st = "awaiting", ![t].attempts = @ + 1, ![t].sent = TRUE]
    /\ UNCHANGED <<cron_secret, configs, invs, builder_calls>>

\* The call fails before it reaches the endpoint (connection error).
TriggerConnectError(t) ==
    /\ tasks[t].st = "scheduled"
    /\ invs[tasks[t].inv].pc = "done"
    /\ tasks' = [tasks EXCEPT ![t].st = "failed", ![t].attempts = @ + 1]
    /\ invs' = [invs EXCEPT ![tasks[t].inv].log = Append(@, LogEntry("error", "Failed to trigger next chunk"))]
    /\ UNCHANGED <<cron_secret, configs, inbound, builder_calls>>

\* The next invocation has answered (with any status code) within the timeout.
TriggerResponse(t) ==
    /\ tasks[t].st = "awaiting"
    /\ \E j \in 1..Len(invs) : invs[j].origin = t /\ invs[j].pc = "done"
    /\ tasks' = [tasks EXCEPT ![t].st = "triggered"]
    /\ invs' = [invs EXCEPT ![tasks[t].inv].log = Append(@, LogEntry("info", "Triggered next chunk"))]
    /\ UNCHANGED <<cron_secret, configs, inbound, builder_calls>>

\* The 10 s timeout of the client ends the wait before the next invocation
\* has answered; the request it sent stays with the endpoint.
TriggerTimeout(t) ==
    /\ tasks[t].st = "awaiting"
    /\ ~\E j \in 1..Len(invs) : invs[j].origin = t /\ invs[j].pc = "done"
    /\ tasks' = [tasks EXCEPT ![t].st = "failed"]
    /\ invs' = [invs EXCEPT ![tasks[t].inv].log = Append(@, LogEntry("error", "Failed to trigger next chunk"))]
    /\ UNCHANGED <<cron_secret, configs, inbound, builder_calls>>

Next ==
    \/ \E req \in inbound : Authenticate(req)
    \/ \E i \in 1..Len(invs) : ParseParams(i)
    \/ \E i \in 1..Len(invs) : Plan(i)
    \/ \E i \in 1..Len(invs) : BuildOk(i)
    \/ \E i \in 1..Len(invs), msg \in BuildErrors : BuildRaise(i, msg)
    \/ \E i \in 1..Len(invs) : Respond(i)
    \/ \E t \in 1..Len(tasks) : TriggerSend(t)
    \/ \E t \in 1..Len(tasks) : TriggerConnectError(t)
    \/ \E t \in 1..Len(tasks) : TriggerResponse(t)
    \/ \E t \in 1..Len(tasks) : TriggerTimeout(t)

Spec == Init /\ [][Next]_vars

\* The chains whose completion is studied start from an external request for
\* chunk 0 (explicit or by default) with a default or positive size; secret,
\* header and auto are unrestricted.
ChainInit ==
    /\ Init
    /\ \A r \in inbound :
           /\ r.chunk \in {NoneText, Some(PyStr(0))}
           /\ r.size \in {NoneText} \cup {Some(PyStr(n)) : n \in 1..MaxSizeParam}

\* Two external requests in flight at once: the scheduled trigger for chunk 0
\* and a second (stale or repeated) trigger for one chunk (auto=false), with
\* the same size and header; the second caller is told apart by origin -1.
RaceInit ==
    /\ cron_secret \in {NoneStr, Some("s3cr3t")}
    /\ configs \in CatalogLists
    /\ \E h \in {NoneStr, Some("Bearer s3cr3t")} :
       \E s \in 1..MaxSizeParam :
       \E c \in 0..MaxChunkParam :
       \E a \in {NoneText, Some(<<"f", "a", "l", "s", "e">>)} :
           inbound = {[origin |-> 0, hdr |-> h, chunk |-> Some(PyStr(0)),
                       size |-> Some(PyStr(s)), auto |-> a],
                      [origin |-> 0 - 1, hdr |-> h, chunk |-> Some(PyStr(c)),
                       size |-> Some(PyStr(s)), auto |-> Some(<<"f", "a", "l", "s", "e">>)]}
    /\ invs = <<>>
    /\ tasks = <<>>
    /\ builder_calls = <<>>

RaceSpec == RaceInit /\ [][Next]_vars

\* Every step the event loop can take is eventually taken: a handler that has
\* been entered runs to its response, a scheduled background task runs, and a
\* call that was sent is either answered or times out.
FairSpec == ChainInit /\ [][Next]_vars /\ WF_vars(Next)

(***************************************************************************)
(* Vocabulary of the properties.                                           *)
(***************************************************************************)
InvIds == 1..Len(invs)
TaskIds == 1..Len(tasks)
CallIds == 1..Len(builder_calls)

\* Builder().build calls made by invocation i, and the tasks it scheduled.
BuildsOf(i) == {k \in CallIds : builder_calls[k].inv = i}
TasksOf(i) == {t \in TaskIds : tasks[t].inv = i}

\* The invocation got past the Auth Guard and parameter parsing.
Parsed(i) == invs[i].pc # "parse" /\ invs[i].resp.code \notin {400, 401}

\* The 200 response of an invocation that ran the builder (lines 105-115).
FullResponse(i) == invs[i].resp.code = 200 /\ "processed" \in DOMAIN invs[i].resp

NoSideEffects(i) == ~invs[i].fetched /\ BuildsOf(i) = {} /\ TasksOf(i) = {}

CeilDiv(a, b) == IF a % b = 0 THEN a \div b ELSE (a \div b) + 1

\* The decimal texts of the integers near the model's bounds.
DecimalTexts == {PyStr(n) : n \in (0 - 99)..99}
NotIntegerText(p) == p.some /\ p.v \notin DecimalTexts

RECURSIVE Flatten(_)
Flatten(calls) == IF calls = <<>> THEN <<>> ELSE Head(calls).configs \o Flatten(Tail(calls))

\* The chain was started by a request for chunk 0 with a size of at least 1.
ChainFromZero ==
    /\ Len(invs) >= 1
    /\ Parsed(1)
    /\ invs[1].origin = 0
    /\ invs[1].chunk_index = 0
    /\ invs[1].chunk_size >= 1

(***************************************************************************)
(* C1: in a chain started at chunk 0 with size >= 1, once an invocation    *)
(* answers "complete" (the first chunk whose has_more is false), the       *)
(* slices [index*size, min(index*size+size, total)) handed to the builder  *)
(* by chunks 0, 1, ... are consecutive and together are the catalog list:  *)
(* every position is in exactly one slice.                                 *)
(***************************************************************************)
C1_SlicesCoverOnce ==
    \A i \in InvIds :
        (ChainFromZero /\ invs[i].resp.code = 200 /\ invs[i].resp.status = "complete")
        => /\ Flatten(builder_calls) = configs
           /\ \A p \in 1..Len(configs) :
                  Cardinality({j \in 1..i : /\ invs[j].sliced
                                            /\ invs[j].start_idx < p
                                            /\ p <= invs[j].end_idx}) = 1
           /\ \A j \in 1..i :
                  invs[j].sliced =>
                      /\ invs[j].start_idx = (j - 1) * invs[1].chunk_size
                      /\ invs[j].end_idx <= Len(configs)

C1_Witness ==
    /\ ChainFromZero
    /\ Len(configs) = 3
    /\ invs[1].chunk_size = 2
    /\ Len(invs) = 2
    /\ invs[2].resp.code = 200
    /\ invs[2].resp.status = "complete"
    /\ Len(invs[2].chunk_configs) = 1

(***************************************************************************)
(* C2: a chain started by an authorized request for chunk 0 with size >= 1 *)
(* and auto enabled never runs the builder more than ceil(total/size)      *)
(* times and, unless a build raises or a continuation call fails to        *)
(* connect, leads to a "complete" response of an invocation that scheduled *)
(* no continuation, with exactly one build for each chunk index            *)
(* 0..ceil(total/size)-1.                                                  *)
(***************************************************************************)
C2_Start == ChainFromZero /\ invs[1].auto_continue

C2_Failed ==
    \/ \E k \in CallIds : builder_calls[k].raised
    \/ \E t \in TaskIds : tasks[t].st = "failed" /\ ~tasks[t].sent

C2_Done ==
    \E i \in InvIds :
        /\ C2_Start
        /\ invs[i].resp.code = 200
        /\ invs[i].resp.status = "complete"
        /\ TasksOf(i) = {}
        /\ Len(builder_calls) = CeilDiv(Len(configs), invs[1].chunk_size)
        /\ \A c \in 0..(CeilDiv(Len(configs), invs[1].chunk_size) - 1) :
               Cardinality({k \in CallIds :
                   invs[builder_calls[k].inv].chunk_index = c}) = 1

C2_ChainCompletes ==
    /\ [](C2_Start => Len(builder_calls) <= CeilDiv(Len(configs), invs[1].chunk_size))
    /\ (C2_Start ~> (C2_Done \/ C2_Failed))

C2_Witness ==
    /\ C2_Start
    /\ C2_Done
    /\ ~C2_Failed
    /\ Len(configs) = 3
    /\ Len(builder_calls) = 3
    /\ Truthy(cron_secret)

(***************************************************************************)
(* C3: with a non-empty secret configured, an invocation gets past the     *)
(* Auth Guard exactly when its Authorization header is "Bearer " + secret; *)
(* every other invocation (missing header included, malformed chunk/size   *)
(* included) ends with 401 and fetches nothing, builds nothing and         *)
(* schedules no continuation.                                              *)
(***************************************************************************)
C3_AuthGuard ==
    Truthy(cron_secret) =>
        \A i \in InvIds :
            IF invs[i].hdr = Some("Bearer " \o cron_secret.v)
            THEN invs[i].resp.code # 401
            ELSE /\ invs[i].pc = "done"
                 /\ invs[i].resp = [code |-> 401, detail |-> "Unauthorized"]
                 /\ NoSideEffects(i)

C3_Witness ==
    /\ Truthy(cron_secret)
    /\ \E i \in InvIds :
           /\ invs[i].resp.code = 401
           /\ ~invs[i].hdr.some
           /\ NotIntegerText(invs[i].q_chunk)

(***************************************************************************)
(* C4: with the secret unset or empty no invocation is answered 401,       *)
(* whatever its Authorization header, and every invocation has logged the  *)
(* warning, also those that end in 400, 500 or "complete".                 *)
(***************************************************************************)
C4_OpenAccessWarns ==
    ~Truthy(cron_secret) =>
        \A i \in InvIds :
            /\ invs[i].resp.code # 401
            /\ invs[i].log # <<>>
            /\ invs[i].log[1] = LogEntry("warning", "CRON_SECRET is not set")

C4_Witness ==
    /\ cron_secret = Some("")
    /\ \E i \in InvIds : invs[i].resp.code = 400 /\ invs[i].hdr = Some("Bearer wrong")
    /\ \A i \in InvIds : invs[i].log # <<>>

(***************************************************************************)
(* C5: a request that passed the Auth Guard and whose chunk or size is not *)
(* an integer text is answered 400 by the parameter step and has no side   *)
(* effect: nothing fetched, nothing built, no continuation scheduled.      *)
(***************************************************************************)
C5_BadRequestNoEffect ==
    \A i \in InvIds :
        (/\ invs[i].pc # "parse"
         /\ invs[i].resp.code # 401
         /\ (NotIntegerText(invs[i].q_chunk) \/ NotIntegerText(invs[i].q_size)))
        => /\ invs[i].pc = "done"
           /\ invs[i].resp.code = 400
           /\ NoSideEffects(i)

C5_Witness ==
    \E i \in InvIds :
        /\ Truthy(cron_secret)
        /\ invs[i].resp.code = 400
        /\ NotIntegerText(invs[i].q_chunk)
        /\ ~NotIntegerText(invs[i].q_size)

(***************************************************************************)
(* C6: no invocation takes its slice, runs the builder or schedules a      *)
(* continuation with a chunk size below 1.                                 *)
(***************************************************************************)
C6_SizeAtLeastOne ==
    \A i \in InvIds :
        (invs[i].sliced \/ BuildsOf(i) # {} \/ TasksOf(i) # {}) => invs[i].chunk_size >= 1

(***************************************************************************)
(* C7: a response of an invocation with chunk >= 0 and size >= 1 that ran  *)
(* the builder on a non-empty slice has status "complete" and next_chunk   *)
(* null when (index+1)*size >= total, and otherwise status "success" and   *)
(* next_chunk = index + 1.                                                 *)
(***************************************************************************)
C7_StatusAndNextChunk ==
    \A i \in InvIds :
        (/\ FullResponse(i)
         /\ invs[i].chunk_index >= 0
         /\ invs[i].chunk_size >= 1
         /\ invs[i].chunk_configs # <<>>)
        => IF (invs[i].chunk_index + 1) * invs[i].chunk_size >= Len(configs)
           THEN invs[i].resp.status = "complete" /\ invs[i].resp.next_chunk = NoneInt
           ELSE /\ invs[i].resp.status = "success"
                /\ invs[i].resp.next_chunk = Some(invs[i].chunk_index + 1)

C7_Witness ==
    \E i \in InvIds :
        /\ FullResponse(i)
        /\ invs[i].chunk_index = 1
        /\ invs[i].chunk_size = 1
        /\ Len(configs) = 2
        /\ invs[i].resp.status = "complete"

(***************************************************************************)
(* C8: in every 200 response of an invocation that ran the builder,        *)
(* auto_continuing is (has more /\ auto), and the invocation scheduled a   *)
(* continuation call exactly when auto_continuing is true; this stays so   *)
(* whatever becomes of the call.                                           *)
(***************************************************************************)
C8_AutoContinuing ==
    \A i \in InvIds :
        FullResponse(i) =>
            /\ invs[i].resp.auto_continuing
                   = (invs[i].resp.next_chunk.some /\ AutoParam(invs[i].q_auto))
            /\ Cardinality(TasksOf(i)) = (IF invs[i].resp.auto_continuing THEN 1 ELSE 0)

C8_Witness ==
    \E i \in InvIds :
        /\ FullResponse(i)
        /\ invs[i].resp.status = "success"
        /\ invs[i].q_auto = Some(<<"f", "a", "l", "s", "e">>)
        /\ ~invs[i].resp.auto_continuing
        /\ TasksOf(i) = {}

(***************************************************************************)
(* C9: when Builder().build raises in an invocation, the invocation ends   *)
(* with a 500 response whose detail is the raised message, it schedules no *)
(* continuation, the build is not run again, and no later invocation of    *)
(* the chain exists or is in flight.                                       *)
(***************************************************************************)
C9_BuildFailureHalts ==
    \A k \in CallIds :
        builder_calls[k].raised =>
            LET i == builder_calls[k].inv
            IN  /\ invs[i].pc = "done"
                /\ invs[i].resp = [code |-> 500, detail |-> builder_calls[k].msg]
                /\ TasksOf(i) = {}
                /\ BuildsOf(i) = {k}
                /\ k = Len(builder_calls)
                /\ i = Len(invs)
                /\ inbound = {}

C9_Witness ==
    \E k \in CallIds :
        /\ builder_calls[k].raised
        /\ builder_calls[k].inv = 2
        /\ invs[2].resp.code = 500
        /\ invs[1].resp.code = 200

(***************************************************************************)
(* C10: an invocation (of a request with chunk >= 0 and size >= 1) makes   *)
(* at most one continuation call attempt, and once the attempt has failed  *)
(* (the failure is logged) the invocation's response is still the 200 of   *)
(* its chunk and no later chunk of the chain is built.                     *)
(***************************************************************************)
C10_FailedCallHaltsChain ==
    \A t \in TaskIds :
        (invs[tasks[t].inv].chunk_index >= 0 /\ invs[tasks[t].inv].chunk_size >= 1) =>
            /\ tasks[t].attempts <= 1
            /\ Cardinality(TasksOf(tasks[t].inv)) = 1
            /\ tasks[t].st = "failed" =>
                   /\ FullResponse(tasks[t].inv)
                   /\ \A j \in InvIds : invs[j].origin = t => BuildsOf(j) = {}

(***************************************************************************)
(* C11, as stated: every invocation reached through a continuation call    *)
(* (of a dispatcher with chunk >= 0 and size >= 1) asks for the chunk      *)
(* after its dispatcher's, with the same size, and carries exactly the     *)
(* Authorization header its dispatcher received.                           *)
(***************************************************************************)
\* The invocation whose background task sent the request of invocation j.
Dispatcher(j) == tasks[invs[j].origin].inv

C11_HeaderVerbatim ==
    \A j \in InvIds :
        (/\ invs[j].origin # 0
         /\ invs[Dispatcher(j)].chunk_index >= 0
         /\ invs[Dispatcher(j)].chunk_size >= 1) =>
            /\ invs[j].q_chunk = Some(PyStr(invs[Dispatcher(j)].chunk_index + 1))
            /\ invs[j].q_size = Some(PyStr(invs[Dispatcher(j)].chunk_size))
            /\ invs[j].hdr = invs[Dispatcher(j)].hdr

(***************************************************************************)
(* C11, amended: every continuation call (in flight or handled) asks for   *)
(* chunk = i + 1 with the same size s, read back by int() as those         *)
(* numbers, and carries the dispatcher's Authorization header when that    *)
(* header is non-empty, and no header when the dispatcher received none or *)
(* an empty one; every invocation reached through a continuation call      *)
(* passes the Auth Guard.                                                  *)
(***************************************************************************)
ForwardedHeader(h) == IF h.some /\ h.v # "" THEN h ELSE NoneStr

C11_Continuation ==
    /\ \A r \in inbound :
           r.origin # 0 =>
               LET p == invs[tasks[r.origin].inv]
               IN  /\ r.chunk.some /\ r.size.some /\ ~r.auto.some
                   /\ PyInt(r.chunk.v) = [ok |-> TRUE, val |-> p.chunk_index + 1]
                   /\ PyInt(r.size.v) = [ok |-> TRUE, val |-> p.chunk_size]
                   /\ r.hdr = ForwardedHeader(p.hdr)
    /\ \A j \in InvIds :
           invs[j].origin # 0 =>
               LET p == invs[Dispatcher(j)]
               IN  /\ invs[j].q_chunk = Some(PyStr(p.chunk_index + 1))
                   /\ invs[j].q_size = Some(PyStr(p.chunk_size))
                   /\ invs[j].hdr = ForwardedHeader(p.hdr)
                   /\ p.resp.code = 200
                   /\ invs[j].resp.code # 401
                   /\ Parsed(j) =>
                          /\ invs[j].chunk_index = p.chunk_index + 1
                          /\ invs[j].chunk_size = p.chunk_size

C11_Witness ==
    \E j \in InvIds :
        /\ invs[j].origin # 0
        /\ cron_secret = Some("s3cr3t")
        /\ invs[j].hdr = Some("Bearer s3cr3t")
        /\ Parsed(j)
        /\ invs[j].chunk_index = 2
        /\ invs[j].chunk_size = 1


(***************************************************************************)
(* C12: a request whose start index chunk*size is at or beyond the number  *)
(* of catalogs (chunk >= 0, size >= 1) is answered 200 with status         *)
(* "complete" and processed = 0.                                           *)
(***************************************************************************)
C12_CompleteReportsProcessedZero ==
    \A i \in InvIds :
        (/\ invs[i].fetched
         /\ invs[i].chunk_index >= 0
         /\ invs[i].chunk_size >= 1
         /\ invs[i].chunk_index * invs[i].chunk_size >= Len(configs)) =>
            /\ invs[i].resp.code = 200
            /\ invs[i].resp.status = "complete"
            /\ "processed" \in DOMAIN invs[i].resp
            /\ invs[i].resp.processed = 0


(***************************************************************************)
(* C13: for size >= 1, the chunks_total an invocation reports is 0 exactly *)
(* when there are no catalogs, and is otherwise the ceiling of             *)
(* total / size; the planner's value is the reported one.                  *)
(***************************************************************************)
C13_ChunksTotal ==
    \A i \in InvIds :
        (invs[i].resp.code = 200 /\ invs[i].chunk_size >= 1) =>
            /\ invs[i].resp.total = Len(configs)
            /\ invs[i].resp.chunks_total = invs[i].total_chunks
            /\ (invs[i].resp.chunks_total = 0) <=> (Len(configs) = 0)
            /\ Len(configs) > 0 =>
                   invs[i].resp.chunks_total = CeilDiv(Len(configs), invs[i].chunk_size)

C13_Witness ==
    \E i \in InvIds :
        /\ invs[i].resp.code = 200
        /\ invs[i].chunk_size = 2
        /\ Len(configs) = 3
        /\ invs[i].resp.chunks_total = 2


(***************************************************************************)
(* C14: an invocation (chunk >= 0, size >= 1) whose planned slice is       *)
(* empty, chunk*size >= total, ends at the plan step with the 200          *)
(* "complete" answer: it takes no slice, never runs the builder and        *)
(* schedules no continuation call.                                         *)
(***************************************************************************)
C14_EmptySliceCompletes ==
    \A i \in InvIds :
        (/\ invs[i].fetched
         /\ invs[i].chunk_index >= 0
         /\ invs[i].chunk_size >= 1
         /\ invs[i].chunk_index * invs[i].chunk_size >= Len(configs)) =>
            /\ invs[i].pc = "done"
            /\ invs[i].resp.code = 200
            /\ invs[i].resp.status = "complete"
            /\ ~invs[i].sliced
            /\ BuildsOf(i) = {}
            /\ TasksOf(i) = {}

C14_Witness ==
    \E i \in InvIds :
        /\ invs[i].fetched
        /\ invs[i].chunk_index = 1
        /\ invs[i].chunk_size = 2
        /\ Len(configs) = 2
        /\ invs[i].pc = "done"
        /\ invs[i].resp.status = "complete"



(***************************************************************************)
(* C15: invocations share no state and take no lock.  With two requests    *)
(* in flight at once, every invocation is answered as it would be alone:   *)
(* it is refused only by the Auth Guard on its own header, fails only when *)
(* its own build raised, runs the builder exactly once on the slice of its *)
(* own chunk whether or not another invocation built that slice, and its   *)
(* status, processed, next_chunk and auto_continuing are those determined  *)
(* by its own chunk, size and auto and the catalog list.                   *)
(***************************************************************************)
SliceAlone(i) ==
    SubSeq(configs, invs[i].chunk_index * invs[i].chunk_size + 1,
           Min(invs[i].chunk_index * invs[i].chunk_size + invs[i].chunk_size,
               Len(configs)))

MoreAlone(i) == (invs[i].chunk_index + 1) * invs[i].chunk_size < Len(configs)

C15_RaceIndependent ==
    \A i \in InvIds :
        /\ invs[i].resp.code \in {0, 200, 401, 500}
        /\ invs[i].resp.code = 401 =>
               SecretConfigured(cron_secret) /\ ~Authorized(cron_secret, invs[i].hdr)
        /\ invs[i].resp.code = 500 => \E k \in BuildsOf(i) : builder_calls[k].raised
        /\ (invs[i].sliced /\ invs[i].pc \in {"respond", "done"}) =>
               /\ Cardinality(BuildsOf(i)) = 1
               /\ \A k \in BuildsOf(i) : builder_calls[k].configs = SliceAlone(i)
        /\ FullResponse(i) =>
               /\ invs[i].resp.status = IF MoreAlone(i) THEN "success" ELSE "complete"
               /\ invs[i].resp.processed = Len(SliceAlone(i))
               /\ invs[i].resp.next_chunk =
                      IF MoreAlone(i) THEN Some(invs[i].chunk_index + 1) ELSE NoneInt
               /\ invs[i].resp.auto_continuing =
                      (MoreAlone(i) /\ invs[i].auto_continue)

\* A self-dispatched continuation and the second external trigger have both
\* built the slice of chunk 1 and neither has answered yet.
C15_Witness ==
    \E i, j \in InvIds :
        /\ invs[i].origin > 0
        /\ invs[j].origin < 0
        /\ invs[i].chunk_index = 1
        /\ invs[j].chunk_index = 1
        /\ invs[i].pc = "respond"
        /\ invs[j].pc = "respond"
        /\ Len(invs[i].chunk_configs) = 1
        /\ BuildsOf(i) # {}
        /\ BuildsOf(j) # {}


(***************************************************************************)
(* C16: the continuation is detached from the response.  The step that     *)
(* schedules a continuation call is the step that returns the 200 result,  *)
(* with the call not yet sent; a call is sent, answered or timed out only  *)
(* for an invocation that has already answered; and a response, once       *)
(* returned, is never changed by what the call or the next chunk does.     *)
(***************************************************************************)
C16_TaskAfterResponse ==
    \A t \in TaskIds :
        /\ invs[tasks[t].inv].pc = "done"
        /\ FullResponse(tasks[t].inv)
        /\ invs[tasks[t].inv].resp.auto_continuing
        /\ invs[tasks[t].inv].resp.next_chunk = Some(tasks[t].chunk_index)

C16_RespondStep ==
    /\ \A i \in InvIds :
           invs[i].pc = "done" => invs'[i].pc = "done" /\ invs'[i].resp = invs[i].resp
    /\ \A i \in InvIds :
           (invs[i].pc = "respond" /\ invs'[i].pc = "done") =>
               /\ invs'[i].resp.code = 200
               /\ invs'[i].resp.auto_continuing =>
                      /\ Len(tasks') = Len(tasks) + 1
                      /\ tasks'[Len(tasks')].inv = i
                      /\ tasks'[Len(tasks')].st = "scheduled"
                      /\ ~tasks'[Len(tasks')].sent
                      /\ inbound' = inbound
    /\ \A t \in TaskIds :
           tasks'[t] # tasks[t] => invs[tasks[t].inv].pc = "done"

C16_Detached == [](C16_TaskAfterResponse) /\ [][C16_RespondStep]_vars

\* An invocation has returned "success" with auto_continuing while its
\* continuation call is scheduled and not sent yet.
C16_Witness ==
    \E t \in TaskIds :
        /\ invs[tasks[t].inv].resp.code = 200
        /\ invs[tasks[t].inv].resp.status = "success"
        /\ invs[tasks[t].inv].resp.auto_continuing
        /\ tasks[t].st = "scheduled"
        /\ ~tasks[t].sent
        /\ \A j \in InvIds : invs[j].origin # t


(***************************************************************************)
(* C17: an invocation (chunk >= 0, size >= 1) whose build raised has       *)
(* still computed the elapsed time of the step when it ends with the 500   *)
(* answer.                                                                 *)
(***************************************************************************)
C17_ElapsedOnFailure ==
    \A k \in CallIds :
        (/\ builder_calls[k].raised
         /\ invs[builder_calls[k].inv].chunk_index >= 0
         /\ invs[builder_calls[k].inv].chunk_size >= 1
         /\ invs[builder_calls[k].inv].resp.code = 500) =>
            invs[builder_calls[k].inv].elapsed


(***************************************************************************)
(* C18: for every accepted (chunk, size), zero and negative values         *)
(* included, a self-dispatched chain stops after finitely many             *)
(* invocations.  In finite-run form: every continuation an invocation      *)
(* schedules starts strictly further along the catalog list than the       *)
(* invocation itself and still inside the list, so the distance            *)
(* total - start_idx shrinks at every link and the chain has at most       *)
(* that many links.                                                        *)
(***************************************************************************)
C18_ChainProgress ==
    \A t \in TaskIds :
        /\ invs[tasks[t].inv].start_idx
               < StartIdx(tasks[t].chunk_index, tasks[t].chunk_size)
        /\ StartIdx(tasks[t].chunk_index, tasks[t].chunk_size) < Len(configs)


(***************************************************************************)
(* C19: in a chain started by a single external request, at most one       *)
(* invocation is in its build step at any time; the invocation for chunk   *)
(* k+1 is requested only by the invocation for chunk k, after its build    *)
(* has returned without raising and it has answered; and the builder is    *)
(* called for strictly increasing chunk indices.                           *)
(***************************************************************************)
BuiltWithoutRaising(i) ==
    /\ invs[i].pc = "done"
    /\ Cardinality(BuildsOf(i)) = 1
    /\ \A k \in BuildsOf(i) : ~builder_calls[k].raised

C19_SequentialBuilds ==
    /\ Cardinality({i \in InvIds : invs[i].pc = "build"}) <= 1
    /\ \A r \in inbound :
           r.origin # 0 =>
               /\ BuiltWithoutRaising(tasks[r.origin].inv)
               /\ r.chunk = Some(PyStr(invs[tasks[r.origin].inv].chunk_index + 1))
    /\ \A j \in InvIds :
           invs[j].origin # 0 =>
               /\ BuiltWithoutRaising(Dispatcher(j))
               /\ invs[j].q_chunk = Some(PyStr(invs[Dispatcher(j)].chunk_index + 1))
               /\ Dispatcher(j) < j
    /\ \A k1, k2 \in CallIds :
           k1 < k2 => invs[builder_calls[k1].inv].chunk_index
                          < invs[builder_calls[k2].inv].chunk_index

\* Chunks 0 and 1 have been built, in that order, and chunk 2 is building.
C19_Witness ==
    /\ Len(builder_calls) = 2
    /\ invs[builder_calls[1].inv].chunk_index = 0
    /\ invs[builder_calls[2].inv].chunk_index = 1
    /\ \E i \in InvIds : invs[i].pc = "build" /\ invs[i].chunk_index = 2


(***************************************************************************)
(* C20: for a request with chunk >= 0 and size >= 1 whose slice is not     *)
(* empty and whose build succeeds, the response has                        *)
(* 1 <= chunk <= chunks_total and 1 <= processed <= size, chunk equals     *)
(* chunks_total exactly when status is "complete", chunk is the requested  *)
(* index + 1, and next_chunk, when not null, equals chunk.                 *)
(***************************************************************************)
C20_ResponseRanges ==
    \A i \in InvIds :
        (FullResponse(i) /\ invs[i].chunk_index >= 0 /\ invs[i].chunk_size >= 1) =>
            /\ 1 <= invs[i].resp.chunk
            /\ invs[i].resp.chunk <= invs[i].resp.chunks_total
            /\ 1 <= invs[i].resp.processed
            /\ invs[i].resp.processed <= invs[i].chunk_size
            /\ (invs[i].resp.chunk = invs[i].resp.chunks_total)
                   <=> (invs[i].resp.status = "complete")
            /\ invs[i].resp.status \in {"complete", "success"}
            /\ invs[i].resp.chunk = invs[i].chunk_index + 1
            /\ invs[i].resp.next_chunk.some =>
                   invs[i].resp.next_chunk.v = invs[i].resp.chunk

\* Both cases: a last chunk (2 of 2, one catalog processed) after a first
\* chunk that announced next_chunk = 1.
C20_Witness ==
    \E i, j \in InvIds :
        /\ FullResponse(i)
        /\ invs[i].resp.chunk = 1
        /\ invs[i].resp.status = "success"
        /\ invs[i].resp.next_chunk = Some(1)
        /\ invs[i].resp.processed = 2
        /\ FullResponse(j)
        /\ invs[j].resp.chunk = 2
        /\ invs[j].resp.chunks_total = 2
        /\ invs[j].resp.status = "complete"
        /\ invs[j].resp.processed = 1

====
